---- MODULE Spec2Model ----
(***************************************************************************)
(* Tournament manager (src/tournament_manager_app.jsx): bracket and        *)
(* schedule generators, the stored tournament collection with its flat and *)
(* structural match views, the match update and administrative            *)
(* operations, and the leaderboard aggregation.                            *)
(*                                                                         *)
(* Conventions: JavaScript null/undefined of an id, a winner or a          *)
(* timestamp is the integer null; identifiers produced by uid() are fresh  *)
(* positive integers drawn from the counter nextId; object spread          *)
(* {...m, ...u} is the operator Spread on records; timestamps are read     *)
(* from the logical clock, which advances by one with every mutation.      *)
(***************************************************************************)
EXTENDS Integers, Sequences, FiniteSets, TLC

VARIABLES
    tournaments,            \* useState tm_tournaments: sequence of Tournament
    currentUser,            \* useState tm_currentUser: a user id or nullUser
    selectedTournamentId,   \* the tournament shown by TournamentView, or null
    nextId,                 \* number of identifiers uid() has handed out
    clock,                  \* logical time: number of mutations performed
    lastOp,                 \* the last mutation issued with its arguments
    genInput,               \* generator harness: the player list passed in
    genOutput,              \* generator harness: the structure returned
    pending,                \* setTournaments updaters queued since the last render
    buttons,                \* marketplace: each Get button's attribute, text, timers
    cardLog,                \* marketplace: runs of each card's click listener
    clicks                  \* marketplace: the click events dispatched, in order

vars == <<tournaments, currentUser, selectedTournamentId, nextId, clock, lastOp,
          genInput, genOutput, pending, buttons, cardLog, clicks>>

\* the variables of the tournament manager
appVars == <<tournaments, currentUser, selectedTournamentId, nextId, clock, lastOp,
             pending>>

\* the variables of the generator harness
genVars == <<genInput, genOutput>>

\* the variables of the marketplace page
marketVars == <<buttons, cardLog, clicks>>

----------------------------------------------------------------------------
(* Bounds of the model *)

MaxTournaments == 2     \* tournaments created in one run
MaxPlayers == 3         \* players typed into the create form
MaxScore == 1           \* a score typed into a score box is in 0..MaxScore
MaxTime == 1            \* a timestamp typed into the reschedule prompt is in 1..MaxTime
MaxOps == 3             \* mutations of the stored collection in one run
MaxGenPlayers == 5      \* players handed to a generator in the harness
MaxPending == 2         \* updaters queued between two renders
NumButtons == 2         \* Get buttons (one per app card) on the marketplace page
MaxClicks == 4          \* click events dispatched on the marketplace page

----------------------------------------------------------------------------
(* Values *)

null == 0

nullUser == "null"

Truthy(v) == v # null

PlayerNames == <<"Alice", "Bob", "Carol", "Dave", "Erin", "Frank", "Grace", "Heidi">>

BYE == [id |-> null, name |-> "BYE"]

\* {...m, ...u}: the fields of u override or extend those of m
Spread(m, u) ==
    [f \in (DOMAIN m) \cup (DOMAIN u) |-> IF f \in DOMAIN u THEN u[f] ELSE m[f]]

RECURSIVE Flat(_)
Flat(rounds) ==
    IF Len(rounds) = 0 THEN <<>> ELSE Head(rounds) \o Flat(Tail(rounds))

RECURSIVE PermSeqs(_)
PermSeqs(S) ==
    IF S = {} THEN {<<>>}
    ELSE UNION {{<<x>> \o p : p \in PermSeqs(S \ {x})} : x \in S}

\* [...players].sort(() => Math.random() - 0.5): some permutation of players
Shuffles(players) ==
    {[i \in 1..Len(players) |-> players[f[i]]] : f \in PermSeqs(1..Len(players))}

\* the players the create form builds from n names: ids uid("p") in text order
FormPlayers(n, idBase) ==
    [i \in 1..n |-> [id |-> idBase + i, name |-> PlayerNames[i]]]

\* the record kept of a mutation: its handler and the arguments it passed on
Op(op, tid, mid, pid, update) ==
    [op |-> op, tid |-> tid, mid |-> mid, pid |-> pid, update |-> update]

NoOp == Op("none", null, null, null, <<>>)

----------------------------------------------------------------------------
(* Bracket generation: single elimination *)

newMatch(id, players) ==
    [id |-> id, players |-> players, score |-> <<0, 0>>, winner |-> null,
     scheduledAt |-> null]

\* currentRound[i] ? currentRound[i].players[0] : null, after filter(Boolean)
slotPlayer(currentRound, i) ==
    IF i <= Len(currentRound) /\ Len(currentRound[i]) > 0
    THEN <<currentRound[i][1]>>
    ELSE <<>>

\* iterations of: for (let i = 0; i < currentRound.length; i += 2)
pairCountDropsBye(n) == n \div 2

pairCount(n) == (n + 1) \div 2

\* placeholders that carry the lone player of a bye into the next round
winnerPlaceholdersAdvancingByes(matches) ==
    [j \in 1..Len(matches) |->
        IF Len(matches[j].players) = 1 THEN <<matches[j].players[1]>> ELSE <<>>]

\* currentRound = matches.map(() => ({ id: uid("r"), players: [], ... })):
\* a slot is represented by its player list
winnerPlaceholders(matches) == [j \in 1..Len(matches) |-> <<>>]

RECURSIVE singleElimRounds(_, _)
singleElimRounds(currentRound, idBase) ==
    IF Len(currentRound) <= 1 THEN <<>>
    ELSE LET k == pairCount(Len(currentRound))
             matches == [j \in 1..k |->
                 newMatch(idBase + j,
                          slotPlayer(currentRound, 2 * j - 1)
                              \o slotPlayer(currentRound, 2 * j))]
         IN  <<matches>> \o singleElimRounds(winnerPlaceholders(matches), idBase + k)

generateSingleElim(shuffled, idBase) ==
    [rounds |-> singleElimRounds([i \in 1..Len(shuffled) |-> <<shuffled[i]>>], idBase),
     type |-> "single"]

----------------------------------------------------------------------------
(* Round-robin scheduler (circle method) *)

\* a generator that forgets the bye marker of an odd field
paddedNever(players) == players

\* if (p.length % 2 === 1) p.push({ id: null, name: "BYE" })
padded(players) ==
    IF Len(players) % 2 = 1 THEN Append(players, BYE) ELSE players

\* a rotation that also moves the anchor: p.unshift(p.pop())
rotateWithAnchor(p) == <<p[Len(p)]>> \o SubSeq(p, 1, Len(p) - 1)

\* p.splice(1, 0, p.pop())
rotate(p) == <<p[1], p[Len(p)]>> \o SubSeq(p, 2, Len(p) - 1)

roundMatches(p, idBase) ==
    LET n == Len(p)
        pairs == [i \in 1..(n \div 2) |-> <<p[i], p[n + 1 - i]>>]
        real == SelectSeq(pairs, LAMBDA pr : Truthy(pr[1].id) /\ Truthy(pr[2].id))
    IN  [j \in 1..Len(real) |-> newMatch(idBase + j, real[j])]

RECURSIVE roundRobinRounds(_, _, _)
roundRobinRounds(p, r, idBase) ==
    IF r >= Len(p) - 1 THEN <<>>
    ELSE LET matches == roundMatches(p, idBase)
         IN  <<matches>> \o roundRobinRounds(rotate(p), r + 1, idBase + Len(matches))

generateRoundRobin(players, idBase) ==
    [rounds |-> roundRobinRounds(padded(players), 0, idBase), type |-> "roundrobin"]

----------------------------------------------------------------------------
(* Simplified double elimination *)

RECURSIVE cloneRounds(_, _)
cloneRounds(rounds, idBase) ==
    IF Len(rounds) = 0 THEN <<>>
    ELSE LET r == Head(rounds)
         IN  <<[j \in 1..Len(r) |-> Spread(r[j], [id |-> idBase + j])]>>
                 \o cloneRounds(Tail(rounds), idBase + Len(r))

generateDoubleElim(shuffled, idBase) ==
    LET single == generateSingleElim(shuffled, idBase)
        losers == cloneRounds(single.rounds, idBase + Len(Flat(single.rounds)))
    IN  [type |-> "double", winners |-> single.rounds, losers |-> losers]

----------------------------------------------------------------------------
(* Marketplace page: the Get buttons and their cards *)

\* getButtons / appCards: button n sits inside card n
Buttons == 1..NumButtons

\* a Get button before its first click: no data-disabled attribute
idleButton ==
    [disabled |-> FALSE, text |-> "Get", style |-> "link", timers |-> 0,
     scheduled |-> 0]

\* a check that never finds the attribute
hasDataDisabledNever(button) == FALSE

\* button.getAttribute('data-disabled') is truthy
hasDataDisabled(button) == button.disabled

\* the click listener of a Get button; timers counts the timeouts not yet
\* run, scheduled the calls of setTimeout made so far
getButtonClick(button) ==
    IF ~hasDataDisabled(button)
    THEN [disabled |-> TRUE, text |-> "Installing...", style |-> "installing",
          timers |-> button.timers + 1, scheduled |-> button.scheduled + 1]
    ELSE button

\* event.stopPropagation() in the click listener of a Get button
getButtonStopsPropagation == TRUE

\* the callback handed to setTimeout
installTimeout(button) ==
    [button EXCEPT !.text = "Installed", !.style = "installed", !.timers = @ - 1]

\* the click listener of an app card logs one navigation
appCardClick(count) == count + 1

InitMarket ==
    /\ buttons = [b \in Buttons |-> idleButton]
    /\ cardLog = [b \in Buttons |-> 0]
    /\ clicks = <<>>

----------------------------------------------------------------------------
(* Generator harness: the generators applied to every bounded player list *)

GenInputs ==
    UNION {Shuffles(FormPlayers(n, 0)) : n \in 0..MaxGenPlayers}

InitGen ==
    /\ tournaments = <<>>
    /\ currentUser = nullUser
    /\ selectedTournamentId = null
    /\ nextId = 0
    /\ clock = 0
    /\ lastOp = NoOp
    /\ genInput \in GenInputs
    /\ genOutput = [type |-> "none"]
    /\ pending = <<>>
    /\ InitMarket

CallGenerateSingleElim ==
    /\ genOutput.type = "none"
    /\ \E shuffled \in Shuffles(genInput) :
           genOutput' = generateSingleElim(shuffled, 0)
    /\ UNCHANGED <<tournaments, currentUser, selectedTournamentId, nextId, clock,
                   lastOp, genInput, pending, marketVars>>

CallGenerateRoundRobin ==
    /\ genOutput.type = "none"
    /\ genOutput' = generateRoundRobin(genInput, 0)
    /\ UNCHANGED <<tournaments, currentUser, selectedTournamentId, nextId, clock,
                   lastOp, genInput, pending, marketVars>>

CallGenerateDoubleElim ==
    /\ genOutput.type = "none"
    /\ \E shuffled \in Shuffles(genInput) :
           genOutput' = generateDoubleElim(shuffled, 0)
    /\ UNCHANGED <<tournaments, currentUser, selectedTournamentId, nextId, clock,
                   lastOp, genInput, pending, marketVars>>

NextGen ==
    \/ CallGenerateSingleElim
    \/ CallGenerateRoundRobin
    \/ CallGenerateDoubleElim

SpecGen == InitGen /\ [][NextGen]_vars

----------------------------------------------------------------------------
(* Accounts, the stored collection and its operations *)

Users == {"u_admin", "u_alice"}

\* seedData gives the organizer account admin: true, signup gives admin: false
userAdmin(u) == u = "u_admin"

Formats == {"single", "double", "roundrobin", "league"}

HasTournament(ts, tid) == \E i \in 1..Len(ts) : ts[i].id = tid

\* tournaments.find((x) => x.id === tid)
FindTournament(ts, tid) ==
    ts[CHOOSE i \in 1..Len(ts) :
           ts[i].id = tid /\ \A j \in 1..(i - 1) : ts[j].id # tid]

createTournament(id, type, organizerId, players, shuffled, now) ==
    LET base == [id |-> id, title |-> "Untitled", type |-> type,
                 organizerId |-> organizerId, players |-> players,
                 createdAt |-> now, scheduleMode |-> "manual", chat |-> <<>>,
                 adminNotes |-> <<>>, matches |-> <<>>, meta |-> <<>>]
    IN  CASE type = "single" ->
               LET rounds == generateSingleElim(shuffled, id).rounds
                   flat == Flat(rounds)
               IN  Spread(base,
                       [matches |-> [i \in 1..Len(flat) |->
                                        Spread(flat[i], [tournamentId |-> id])],
                        meta |-> [rounds |-> rounds]])
          [] type \in {"roundrobin", "league"} ->
               LET rounds == generateRoundRobin(players, id).rounds
               IN  Spread(base, [matches |-> Flat(rounds), meta |-> [rounds |-> rounds]])
          [] type = "double" ->
               LET d == generateDoubleElim(shuffled, id)
               IN  Spread(base, [matches |-> Flat(d.winners) \o Flat(d.losers), meta |-> d])
          [] OTHER -> base

\* m.id === matchId ? { ...m, ...update } : m, without the id test
patchEveryMatch(m, matchId, update) == Spread(m, update)

\* m.id === matchId ? { ...m, ...update } : m
patchMatch(m, matchId, update) ==
    IF m.id = matchId THEN Spread(m, update) ELSE m

updateMatch(ts, tournamentId, matchId, update) ==
    [i \in 1..Len(ts) |->
        LET t == ts[i]
            matches == [k \in 1..Len(t.matches) |->
                           patchMatch(t.matches[k], matchId, update)]
            newT == Spread(t, [matches |-> matches])
        IN  IF t.id # tournamentId THEN t
            ELSE IF "rounds" \in DOMAIN newT.meta
            THEN [newT EXCEPT !.meta.rounds =
                     [r \in 1..Len(@) |->
                         [k \in 1..Len(@[r]) |-> patchMatch(@[r][k], matchId, update)]]]
            ELSE newT]

\* the audit string `Disqualified ${playerId} by ${currentUser?.id} at ${nowISO()}`
auditNote(playerId, by, now) == [disqualified |-> playerId, by |-> by, at |-> now]

\* a disqualification that also drops the matches the player takes part in
disqualifyPurgingMatches(t, playerId, by, now) ==
    Spread(t, [players |-> SelectSeq(t.players, LAMBDA p : p.id # playerId),
               adminNotes |-> Append(t.adminNotes, auditNote(playerId, by, now)),
               matches |-> SelectSeq(t.matches, LAMBDA m :
                               \A k \in 1..Len(m.players) : m.players[k].id # playerId)])

disqualify(t, playerId, by, now) ==
    Spread(t, [players |-> SelectSeq(t.players, LAMBDA p : p.id # playerId),
               adminNotes |-> Append(t.adminNotes, auditNote(playerId, by, now))])

reschedule(t, matchIds, scheduledAt) ==
    Spread(t, [matches |-> [k \in 1..Len(t.matches) |->
                   IF t.matches[k].id \in matchIds
                   THEN Spread(t.matches[k], [scheduledAt |-> scheduledAt])
                   ELSE t.matches[k]]])

adminAction(ts, tournamentId, action, payload, by, now) ==
    [i \in 1..Len(ts) |->
        LET t == ts[i]
        IN  IF t.id # tournamentId THEN t
            ELSE IF action = "reschedule"
            THEN reschedule(t, payload.matchIds, payload.scheduledAt)
            ELSE IF action = "disqualify"
            THEN disqualify(t, payload.playerId, by, now)
            ELSE t]

addComment(ts, tournamentId, text, by, id, now) ==
    [i \in 1..Len(ts) |->
        LET t == ts[i]
        IN  IF t.id # tournamentId THEN t
            ELSE Spread(t, [chat |-> Append(t.chat,
                     [id |-> id, userId |-> by, text |-> text, createdAt |-> now])])]

\* a derivation that never leaves the winner unset
setScoreWinnerNoTie(m, aScore, bScore) ==
    m.players[IF aScore > bScore THEN 1 ELSE 2].id

\* aScore === bScore ? null : m.players[aScore > bScore ? 0 : 1].id
setScoreWinner(m, aScore, bScore) ==
    IF aScore = bScore THEN null
    ELSE m.players[IF aScore > bScore THEN 1 ELSE 2].id

\* m.players[...].id raises a TypeError when the slot does not exist
setScoreThrows(m, aScore, bScore) ==
    aScore # bScore /\ (IF aScore > bScore THEN 1 ELSE 2) > Len(m.players)

\* quickScheduleAll on the rendered tournament t at time now
quickScheduleAll(ts, t, now) ==
    LET matches == [i \in 1..Len(t.matches) |->
                       Spread(t.matches[i], [scheduledAt |-> now + i])]
    IN  [j \in 1..Len(ts) |->
            IF ts[j].id = t.id THEN Spread(ts[j], [matches |-> matches]) ELSE ts[j]]

\* a capability check that accepts every logged-in user
isAdminAnyUser(user, t) == user # nullUser

\* currentUser && (currentUser.admin || currentUser.id === t.organizerId)
isAdmin(user, t) == user # nullUser /\ (userAdmin(user) \/ user = t.organizerId)

----------------------------------------------------------------------------
(* Leaderboard aggregation *)

newEntry(p) == [id |-> p.id, name |-> p.name, wins |-> 0, losses |-> 0, points |-> 0]

hasEntry(entries, id) == \E k \in 1..Len(entries) : entries[k].id = id

\* t.players.forEach: if (!players[p.id]) players[p.id] = {...}
RECURSIVE addPlayers(_, _)
addPlayers(entries, players) ==
    IF Len(players) = 0 THEN entries
    ELSE addPlayers(IF hasEntry(entries, Head(players).id) THEN entries
                    ELSE Append(entries, newEntry(Head(players))),
                    Tail(players))

bump(entries, id, wins, losses, points) ==
    [k \in 1..Len(entries) |->
        IF entries[k].id = id
        THEN [entries[k] EXCEPT !.wins = @ + wins, !.losses = @ + losses,
                                !.points = @ + points]
        ELSE entries[k]]

\* the body of t.matches.forEach; ok turns FALSE where players[...] is undefined
\* and the property access raises a TypeError
recordMatch(acc, m) ==
    IF ~acc.ok \/ Len(m.players) = 0 \/ ~Truthy(m.winner) THEN acc
    ELSE IF ~hasEntry(acc.entries, m.winner) THEN [ok |-> FALSE, entries |-> acc.entries]
    ELSE LET won == bump(acc.entries, m.winner, 1, 0, 0)
             others == SelectSeq(m.players, LAMBDA pp : pp.id # m.winner)
         IN  IF Len(others) = 0
             THEN [ok |-> TRUE, entries |-> bump(won, m.winner, 0, 0, 3)]
             ELSE IF ~hasEntry(won, others[1].id)
             THEN [ok |-> FALSE, entries |-> won]
             ELSE [ok |-> TRUE,
                   entries |-> bump(bump(won, others[1].id, 0, 1, 0), m.winner, 0, 0, 3)]

RECURSIVE recordMatches(_, _)
recordMatches(acc, matches) ==
    IF Len(matches) = 0 THEN acc
    ELSE recordMatches(recordMatch(acc, Head(matches)), Tail(matches))

\* tournaments.forEach
RECURSIVE aggregate(_, _)
aggregate(acc, ts) ==
    IF Len(ts) = 0 \/ ~acc.ok THEN acc
    ELSE aggregate(
             recordMatches([ok |-> TRUE, entries |-> addPlayers(acc.entries, Head(ts).players)],
                           Head(ts).matches),
             Tail(ts))

\* a comparator ranking the fewest points first
leaderboardCompareAscending(a, b) ==
    IF a.points - b.points # 0 THEN a.points - b.points ELSE a.wins - b.wins

\* (a, b) => b.points - a.points || b.wins - a.wins
leaderboardCompare(a, b) ==
    IF b.points - a.points # 0 THEN b.points - a.points ELSE b.wins - a.wins

\* Array.prototype.sort: stable, an entry goes after those not ranked behind it
RECURSIVE sortEntries(_)
sortEntries(entries) ==
    IF Len(entries) = 0 THEN <<>>
    ELSE LET e == entries[Len(entries)]
             sorted == sortEntries(SubSeq(entries, 1, Len(entries) - 1))
             pos == Cardinality({i \in 1..Len(sorted) : leaderboardCompare(sorted[i], e) <= 0})
         IN  SubSeq(sorted, 1, pos) \o <<e>> \o SubSeq(sorted, pos + 1, Len(sorted))

\* ok = FALSE: the call raised instead of returning
computeLeaderboard(ts) ==
    LET acc == aggregate([ok |-> TRUE, entries |-> <<>>], ts)
    IN  IF acc.ok THEN [ok |-> TRUE, entries |-> sortEntries(acc.entries)]
        ELSE [ok |-> FALSE, entries |-> <<>>]

----------------------------------------------------------------------------
(* The application: event handlers of TournamentManagerApp *)

Init ==
    /\ tournaments = <<>>
    /\ currentUser = nullUser
    /\ selectedTournamentId = null
    /\ nextId = 0
    /\ clock = 0
    /\ lastOp = NoOp
    /\ genInput = <<>>
    /\ genOutput = [type |-> "none"]
    /\ pending = <<>>
    /\ InitMarket

\* TournamentView renders the tournament found under selectedTournamentId
Shown == selectedTournamentId # null /\ HasTournament(tournaments, selectedTournamentId)

T == FindTournament(tournaments, selectedTournamentId)

\* the matches the bracket view renders: t.meta.rounds, when present
BracketMatches(t) ==
    IF "rounds" \in DOMAIN t.meta
    THEN {Flat(t.meta.rounds)[k] : k \in 1..Len(Flat(t.meta.rounds))}
    ELSE {}

FlatMatches(t) == {t.matches[k] : k \in 1..Len(t.matches)}

\* AuthPanel (shown while logged out): login(email, pass) of a registered account
Login ==
    /\ currentUser = nullUser
    /\ \E u \in Users : currentUser' = u
    /\ UNCHANGED <<tournaments, selectedTournamentId, nextId, clock, lastOp,
                   genInput, genOutput,
                   pending, marketVars>>

Logout ==
    /\ currentUser # nullUser
    /\ currentUser' = nullUser
    /\ UNCHANGED <<tournaments, selectedTournamentId, nextId, clock, lastOp,
                   genInput, genOutput,
                   pending, marketVars>>

\* TournamentList: the Open button
OpenTournament ==
    /\ \E i \in 1..Len(tournaments) :
           /\ tournaments[i].id # selectedTournamentId
           /\ selectedTournamentId' = tournaments[i].id
    /\ UNCHANGED <<tournaments, currentUser, nextId, clock, lastOp, genInput, genOutput,
                   pending, marketVars>>

\* NewTournament: the Create button
CreateTournament ==
    /\ currentUser # nullUser
    /\ clock < MaxOps
    /\ Len(tournaments) < MaxTournaments
    /\ \E type \in Formats, n \in 0..MaxPlayers :
         LET players == FormPlayers(n, nextId)
             id == nextId + n + 1
         IN  \E shuffled \in (IF type \in {"single", "double"}
                              THEN Shuffles(players) ELSE {players}) :
               LET base == createTournament(id, type, currentUser, players, shuffled, clock)
               IN  /\ tournaments' = <<base>> \o tournaments
                   /\ selectedTournamentId' = id
                   /\ nextId' = id + Len(base.matches)
                   /\ lastOp' = Op("createTournament", id, null, null, <<>>)
    /\ clock' = clock + 1
    /\ UNCHANGED <<currentUser, genInput, genOutput,
                   pending, marketVars>>

\* bracket view: onBlur of score box A or B of a rendered match
SetScore ==
    /\ Shown
    /\ clock < MaxOps
    /\ \E m \in BracketMatches(T), box \in {"A", "B"}, v \in 0..MaxScore :
         LET aScore == IF box = "A" THEN v ELSE m.score[1]
             bScore == IF box = "A" THEN m.score[2] ELSE v
             update == [score |-> <<aScore, bScore>>,
                        winner |-> setScoreWinner(m, aScore, bScore)]
         IN  /\ ~setScoreThrows(m, aScore, bScore)
             /\ tournaments' = updateMatch(tournaments, T.id, m.id, update)
             /\ lastOp' = Op("setScore", T.id, m.id, null, update)
    /\ clock' = clock + 1
    /\ UNCHANGED <<currentUser, selectedTournamentId, nextId, genInput, genOutput,
                   pending, marketVars>>

\* flat list: the Reschedule button, prompt answered with a non-empty text
Reschedule ==
    /\ Shown
    /\ clock < MaxOps
    /\ isAdmin(currentUser, T)
    /\ \E m \in FlatMatches(T), at \in 1..MaxTime :
         LET update == [scheduledAt |-> at]
         IN  /\ tournaments' = updateMatch(tournaments, T.id, m.id, update)
             /\ lastOp' = Op("reschedule", T.id, m.id, null, update)
    /\ clock' = clock + 1
    /\ UNCHANGED <<currentUser, selectedTournamentId, nextId, genInput, genOutput,
                   pending, marketVars>>

\* flat list: the Disqualify button of a match row, playerId m.players?.[0]?.id
DisqualifyFirstPlayer ==
    /\ Shown
    /\ clock < MaxOps
    /\ isAdmin(currentUser, T)
    /\ \E m \in FlatMatches(T) :
         LET playerId == IF Len(m.players) > 0 THEN m.players[1].id ELSE null
         IN  /\ tournaments' = adminAction(tournaments, T.id, "disqualify",
                                           [playerId |-> playerId], currentUser, clock)
             /\ lastOp' = Op("disqualify", T.id, m.id, playerId, <<>>)
    /\ clock' = clock + 1
    /\ UNCHANGED <<currentUser, selectedTournamentId, nextId, genInput, genOutput,
                   pending, marketVars>>

\* players list: the DQ button of a listed player
DisqualifyListed ==
    /\ Shown
    /\ clock < MaxOps
    /\ isAdmin(currentUser, T)
    /\ \E k \in 1..Len(T.players) :
         /\ tournaments' = adminAction(tournaments, T.id, "disqualify",
                                       [playerId |-> T.players[k].id], currentUser, clock)
         /\ lastOp' = Op("disqualify", T.id, null, T.players[k].id, <<>>)
    /\ clock' = clock + 1
    /\ UNCHANGED <<currentUser, selectedTournamentId, nextId, genInput, genOutput,
                   pending, marketVars>>

\* header: the Auto-schedule button
AutoSchedule ==
    /\ Shown
    /\ clock < MaxOps
    /\ isAdmin(currentUser, T)
    /\ tournaments' = quickScheduleAll(tournaments, T, clock)
    /\ lastOp' = Op("quickScheduleAll", T.id, null, null, <<>>)
    /\ clock' = clock + 1
    /\ UNCHANGED <<currentUser, selectedTournamentId, nextId, genInput, genOutput,
                   pending, marketVars>>

\* ChatBox (shown while logged in): the Send button with a non-blank text
SendComment ==
    /\ Shown
    /\ clock < MaxOps
    /\ currentUser # nullUser
    /\ tournaments' = addComment(tournaments, T.id, "gg", currentUser, nextId + 1, clock)
    /\ nextId' = nextId + 1
    /\ lastOp' = Op("addComment", T.id, null, null, <<>>)
    /\ clock' = clock + 1
    /\ UNCHANGED <<currentUser, selectedTournamentId, genInput, genOutput,
                   pending, marketVars>>

Next ==
    \/ Login
    \/ Logout
    \/ OpenTournament
    \/ CreateTournament
    \/ SetScore
    \/ Reschedule
    \/ DisqualifyFirstPlayer
    \/ DisqualifyListed
    \/ AutoSchedule
    \/ SendComment

Spec == Init /\ [][Next]_vars

----------------------------------------------------------------------------
(* The operations of the collection called directly, with arbitrary arguments *)

\* an identifier uid() has not produced
UnknownId == nextId + 1

AllMatchIds ==
    UNION {{tournaments[i].matches[k].id : k \in 1..Len(tournaments[i].matches)} :
              i \in 1..Len(tournaments)}

ApiUpdates ==
    {[scheduledAt |-> at] : at \in 1..MaxTime}
        \cup {[score |-> <<a, b>>] : a \in 0..MaxScore, b \in 0..MaxScore}
        \cup {[winner |-> null]}

UpdateMatchCall ==
    /\ clock < MaxOps
    /\ \E tid \in {tournaments[i].id : i \in 1..Len(tournaments)} \cup {UnknownId},
          mid \in AllMatchIds \cup {UnknownId},
          update \in ApiUpdates :
         /\ tournaments' = updateMatch(tournaments, tid, mid, update)
         /\ lastOp' = Op("updateMatch", tid, mid, null, update)
    /\ clock' = clock + 1
    /\ UNCHANGED <<currentUser, selectedTournamentId, nextId, genInput, genOutput,
                   pending, marketVars>>

AdminActionCall ==
    /\ clock < MaxOps
    /\ \E i \in 1..Len(tournaments), action \in {"reschedule", "disqualify", "archive"} :
         LET t == tournaments[i]
             ids == {t.matches[k].id : k \in 1..Len(t.matches)}
         IN  \E matchIds \in {{id} : id \in ids} \cup {ids},
                playerId \in {t.players[k].id : k \in 1..Len(t.players)} \cup {null} :
               /\ action = "reschedule" => playerId = null
               /\ action # "reschedule" => matchIds = ids
               /\ action = "archive" => playerId = null
               /\ tournaments' = adminAction(tournaments, t.id, action,
                      [matchIds |-> matchIds, scheduledAt |-> MaxTime, playerId |-> playerId],
                      currentUser, clock)
               /\ lastOp' = Op(action, t.id, null, playerId, <<>>)
    /\ clock' = clock + 1
    /\ UNCHANGED <<currentUser, selectedTournamentId, nextId, genInput, genOutput,
                   pending, marketVars>>

NextApi ==
    \/ Login
    \/ CreateTournament
    \/ UpdateMatchCall
    \/ AdminActionCall

SpecApi == Init /\ [][NextApi]_vars

----------------------------------------------------------------------------
(* Properties of the generators, checked under SpecGen *)

\* ceil(log2(n)) for n >= 1: the least k with 2^k >= n
CeilLog2(n) == CHOOSE k \in 0..n : 2 ^ k >= n /\ \A j \in 0..(k - 1) : 2 ^ j < n

MatchPlayerIds(m) == {m.players[k].id : k \in 1..Len(m.players)}

\* C4: for every player count N and every shuffle outcome generateSingleElim
\* returns exactly ceil(log2(max(N,1))) rounds (none for N <= 1), each round
\* after the first has ceil(previous size / 2) matches, and for N >= 2 the
\* last round holds exactly one match.
C4_SingleElimRoundCount ==
    genOutput.type = "single" =>
        LET N == Len(genInput)
            rounds == genOutput.rounds
        IN  /\ Len(rounds) = CeilLog2(IF N > 1 THEN N ELSE 1)
            /\ (N <= 1 => Len(rounds) = 0)
            /\ \A k \in 1..(Len(rounds) - 1) :
                   Len(rounds[k + 1]) = (Len(rounds[k]) + 1) \div 2
            /\ (N >= 2 => Len(rounds[Len(rounds)]) = 1)

\* an odd field: three players, a bye in round one, two rounds
C4_Witness ==
    /\ genOutput.type = "single"
    /\ Len(genInput) = 3
    /\ Len(genOutput.rounds) = 2
    /\ Len(genOutput.rounds[1][2].players) = 1

\* C5: for N players with distinct ids generateRoundRobin pairs every two
\* real players in exactly one match over all rounds, lets no player play
\* twice in one round, and creates no match with the synthetic BYE player.
C5_RoundRobinPairsOnce ==
    genOutput.type = "roundrobin" =>
        LET rounds == genOutput.rounds
            ids == {genInput[i].id : i \in 1..Len(genInput)}
            slots == UNION {{<<r, k>> : k \in 1..Len(rounds[r])} : r \in 1..Len(rounds)}
        IN  /\ \A a \in ids, b \in ids :
                   a < b => Cardinality({s \in slots :
                                MatchPlayerIds(rounds[s[1]][s[2]]) = {a, b}}) = 1
            /\ \A s \in slots :
                   /\ Len(rounds[s[1]][s[2]].players) = 2
                   /\ Cardinality(MatchPlayerIds(rounds[s[1]][s[2]])) = 2
                   /\ MatchPlayerIds(rounds[s[1]][s[2]]) \subseteq ids
                   /\ \A k \in 1..2 : rounds[s[1]][s[2]].players[k] # BYE
            /\ \A r \in 1..Len(rounds) : \A k1 \in 1..Len(rounds[r]), k2 \in 1..Len(rounds[r]) :
                   k1 # k2 => MatchPlayerIds(rounds[r][k1]) \cap MatchPlayerIds(rounds[r][k2]) = {}

\* an odd field: three players padded with BYE, three rounds of one match
C5_Witness ==
    /\ genOutput.type = "roundrobin"
    /\ Len(genInput) = 3
    /\ Len(genOutput.rounds) = 3
    /\ \A r \in 1..3 : Len(genOutput.rounds[r]) = 1

----------------------------------------------------------------------------
(* Properties of the stored collection and its operations *)

\* the structural round data of a tournament, in order: meta.rounds, or the
\* winners and losers brackets of the double-elimination format
StructuralMatches(t) ==
    IF "rounds" \in DOMAIN t.meta THEN Flat(t.meta.rounds)
    ELSE IF "winners" \in DOMAIN t.meta THEN Flat(t.meta.winners) \o Flat(t.meta.losers)
    ELSE <<>>

SeqRange(q) == {q[k] : k \in 1..Len(q)}

TournamentById(ts, tid) == CHOOSE t \in SeqRange(ts) : t.id = tid

\* C1: in every reachable state every tournament's flat match list and its
\* structural round data hold matches with the same identifiers, and each
\* match has the same fields with the same values in both views.
C1_ViewsConsistent ==
    \A t \in SeqRange(tournaments) :
        /\ {m.id : m \in SeqRange(t.matches)} = {m.id : m \in SeqRange(StructuralMatches(t))}
        /\ \A f \in SeqRange(t.matches), g \in SeqRange(StructuralMatches(t)) :
               f.id = g.id => f = g

UpdateMatchOps == {"setScore", "reschedule", "updateMatch"}

\* C2: after updateMatch(tournamentId, m, update) on an existing match of a
\* tournament of any format, every field named in update has the value from
\* update in the flat entry m and in every structural occurrence of m, and
\* each field of a structural occurrence equals that of the flat entry.
C2_UpdateReachesBothViews ==
    (lastOp.op \in UpdateMatchOps /\ HasTournament(tournaments, lastOp.tid)) =>
        LET t == TournamentById(tournaments, lastOp.tid)
            u == lastOp.update
        IN  \A f \in SeqRange(t.matches) :
                f.id = lastOp.mid =>
                    /\ \A x \in DOMAIN u : f[x] = u[x]
                    /\ \A g \in SeqRange(StructuralMatches(t)) :
                           g.id = lastOp.mid =>
                               /\ \A x \in DOMAIN u : g[x] = u[x]
                               /\ \A x \in DOMAIN g : g[x] = f[x]

\* the winner derivation rule of a two-player match
WinnerRule(m) ==
    IF m.score[1] = m.score[2] THEN null
    ELSE IF m.score[1] > m.score[2] THEN m.players[1].id
    ELSE m.players[2].id

\* C3: in every reachable state every two-player match, in the flat list and
\* in the round data, has no winner when its scores are equal, the first
\* player as winner when the first score is greater and the second player
\* otherwise; and the match setScore(m, a, b) addressed holds score (a, b).
C3_WinnerMatchesScore ==
    /\ \A t \in SeqRange(tournaments) :
           \A m \in SeqRange(t.matches) \cup SeqRange(StructuralMatches(t)) :
               Len(m.players) = 2 => m.winner = WinnerRule(m)
    /\ lastOp.op = "setScore" =>
           \A m \in SeqRange(TournamentById(tournaments, lastOp.tid).matches) :
               m.id = lastOp.mid =>
                   /\ m.score = lastOp.update.score
                   /\ m.winner = lastOp.update.winner
                   /\ (m.score[1] = m.score[2] => m.winner = null)

\* a win turned into a tie: setScore left a non-zero tie and cleared the winner
C3_Witness ==
    /\ lastOp.op = "setScore"
    /\ \E m \in SeqRange(TournamentById(tournaments, lastOp.tid).matches) :
           /\ m.id = lastOp.mid
           /\ Len(m.players) = 2
           /\ m.score = <<1, 1>>
           /\ m.winner = null

AllListedPlayerIds(ts) ==
    UNION {{p.id : p \in SeqRange(t.players)} : t \in SeqRange(ts)}

\* the positions <<i, k>> of the flat matches of the collection
MatchSlots(ts) ==
    UNION {{<<i, k>> : k \in 1..Len(ts[i].matches)} : i \in 1..Len(ts)}

\* C6: computeLeaderboard returns exactly one entry per distinct player id of
\* any tournament's player list; wins counts the matches of all flat lists
\* whose winner is that player, points is 3 times wins, losses counts the
\* matches with a recorded winner in which the player is the other
\* participant; matches without a winner contribute nothing.
C6_LeaderboardAggregates ==
    LET r == computeLeaderboard(tournaments)
        slots == MatchSlots(tournaments)
        M(s) == tournaments[s[1]].matches[s[2]]
    IN  /\ r.ok
        /\ {e.id : e \in SeqRange(r.entries)} = AllListedPlayerIds(tournaments)
        /\ Len(r.entries) = Cardinality(AllListedPlayerIds(tournaments))
        /\ \A e \in SeqRange(r.entries) :
               /\ e.wins = Cardinality({s \in slots : M(s).winner = e.id})
               /\ e.points = 3 * e.wins
               /\ e.losses = Cardinality({s \in slots :
                                 /\ Truthy(M(s).winner)
                                 /\ M(s).winner # e.id
                                 /\ e.id \in MatchPlayerIds(M(s))})

\* C7: the sequence computeLeaderboard returns is ordered by descending
\* points, entries of equal points by descending wins.
C7_LeaderboardSorted ==
    LET r == computeLeaderboard(tournaments)
    IN  r.ok =>
            \A k \in 1..(Len(r.entries) - 1) :
                \/ r.entries[k].points > r.entries[k + 1].points
                \/ /\ r.entries[k].points = r.entries[k + 1].points
                   /\ r.entries[k].wins >= r.entries[k + 1].wins

\* the sort had to move a later-listed player ahead of an earlier one
C7_Witness ==
    LET r == computeLeaderboard(tournaments)
        listed == aggregate([ok |-> TRUE, entries |-> <<>>], tournaments)
    IN  /\ r.ok
        /\ Len(r.entries) >= 3
        /\ r.entries # listed.entries
        /\ r.entries[1].points > r.entries[Len(r.entries)].points

\* C8: disqualify(tournamentId, playerId) removes exactly the player with
\* that id from the tournament's players, appends exactly one audit entry to
\* adminNotes, and leaves the tournament's flat matches, round data, chat and
\* other fields and every other tournament unchanged.
C8_DisqualifyFrame ==
    [][(clock' = clock + 1 /\ lastOp'.op = "disqualify") =>
          /\ Len(tournaments') = Len(tournaments)
          /\ \A i \in 1..Len(tournaments) :
                LET t == tournaments[i]
                    after == tournaments'[i]
                IN  IF t.id # lastOp'.tid THEN after = t
                    ELSE /\ after.players =
                                SelectSeq(t.players, LAMBDA p : p.id # lastOp'.pid)
                         /\ Len(after.adminNotes) = Len(t.adminNotes) + 1
                         /\ SubSeq(after.adminNotes, 1, Len(t.adminNotes)) = t.adminNotes
                         /\ after.adminNotes[Len(after.adminNotes)].disqualified = lastOp'.pid
                         /\ DOMAIN after = DOMAIN t
                         /\ \A x \in DOMAIN t \ {"players", "adminNotes"} : after[x] = t[x]
      ]_vars

\* the recorded winner of a match was disqualified: gone from the players,
\* still named by the match
C8_Witness ==
    /\ lastOp.op = "disqualify"
    /\ LET t == TournamentById(tournaments, lastOp.tid)
       IN  /\ lastOp.pid \notin {p.id : p \in SeqRange(t.players)}
           /\ Len(t.adminNotes) = 1
           /\ \E m \in SeqRange(t.matches) :
                  m.winner = lastOp.pid /\ lastOp.pid \in MatchPlayerIds(m)

\* C9: updateMatch with a tournament id no stored tournament has, or a match
\* id no match of the addressed tournament has, leaves the stored collection
\* as it was.
C9_UnknownIdNoOp ==
    [][(/\ clock' = clock + 1
        /\ lastOp'.op = "updateMatch"
        /\ \/ ~HasTournament(tournaments, lastOp'.tid)
           \/ LET t == TournamentById(tournaments, lastOp'.tid)
              IN  \A m \in SeqRange(t.matches) \cup SeqRange(StructuralMatches(t)) :
                      m.id # lastOp'.mid)
          => tournaments' = tournaments
      ]_vars

\* updateMatch was called on a stored tournament that has matches, with a
\* match id none of them has
C9_Witness ==
    /\ lastOp.op = "updateMatch"
    /\ HasTournament(tournaments, lastOp.tid)
    /\ LET t == TournamentById(tournaments, lastOp.tid)
       IN  /\ Len(t.matches) > 0
           /\ \A m \in SeqRange(t.matches) : m.id # lastOp.mid

\* the capability: a global admin or the tournament's organizer
AdminOrOrganizer(user, t) ==
    user \in Users /\ (user = "u_admin" \/ user = t.organizerId)

\* what reschedule, disqualify and auto-schedule write
AdminData(t) ==
    <<t.players, t.adminNotes, [k \in 1..Len(t.matches) |-> t.matches[k].scheduledAt]>>

AdminOps == {"reschedule", "disqualify", "quickScheduleAll"}

\* C10: a reschedule, disqualify or auto-schedule of a tournament happens,
\* and the players, audit notes or schedule of a stored tournament change,
\* only while the current user is a global admin or that tournament's
\* organizer.
C10_AdminGate ==
    [][/\ (clock' = clock + 1 /\ lastOp'.op \in AdminOps) =>
              AdminOrOrganizer(currentUser, TournamentById(tournaments, lastOp'.tid))
       /\ \A t \in SeqRange(tournaments), after \in SeqRange(tournaments') :
              (after.id = t.id /\ AdminData(after) # AdminData(t)) =>
                  AdminOrOrganizer(currentUser, t)
      ]_vars

\* a tournament an organizer has auto-scheduled is shown to a visitor or to
\* another plain user, for whom the check fails
C10_Witness ==
    /\ Shown
    /\ lastOp.op = "quickScheduleAll"
    /\ lastOp.tid = selectedTournamentId
    /\ Len(T.matches) > 0
    /\ T.organizerId # "u_admin"
    /\ ~AdminOrOrganizer(currentUser, T)

----------------------------------------------------------------------------
(* Properties of creation with fewer than two players *)

\* the number of rounds the structural data of a tournament holds
RoundCount(t) ==
    IF "rounds" \in DOMAIN t.meta THEN Len(t.meta.rounds)
    ELSE IF "winners" \in DOMAIN t.meta THEN Len(t.meta.winners) + Len(t.meta.losers)
    ELSE 0

JustCreated ==
    lastOp.op = "createTournament" /\ HasTournament(tournaments, lastOp.tid)

\* C11 as stated: createTournament with zero or one player, in every format,
\* yields zero rounds and zero matches.
C11_NoRoundsBelowTwoPlayers ==
    JustCreated =>
        LET t == TournamentById(tournaments, lastOp.tid)
        IN  Len(t.players) <= 1 => (Len(t.matches) = 0 /\ RoundCount(t) = 0)

\* C11 as amended: createTournament with zero or one player, in every
\* format, yields zero matches in both views; it yields zero rounds, except
\* that roundrobin and league with exactly one player yield one round, which
\* holds no match.
C11_NoMatchesBelowTwoPlayers ==
    JustCreated =>
        LET t == TournamentById(tournaments, lastOp.tid)
        IN  Len(t.players) <= 1 =>
                /\ Len(t.matches) = 0
                /\ Len(StructuralMatches(t)) = 0
                /\ RoundCount(t) =
                       (IF t.type \in {"roundrobin", "league"} /\ Len(t.players) = 1
                        THEN 1 ELSE 0)

\* a league of one player was created: one round, no match
C11_Witness ==
    /\ JustCreated
    /\ LET t == TournamentById(tournaments, lastOp.tid)
       IN  /\ t.type = "league"
           /\ Len(t.players) = 1
           /\ t.meta.rounds = << <<>> >>
           /\ Len(t.matches) = 0

----------------------------------------------------------------------------
(* Completion of the leaderboard computation *)

\* C14: computeLeaderboard completes and returns a result for the tournament
\* collection of every reachable state, also after a participant or the
\* recorded winner of a match was disqualified.
C14_LeaderboardCompletes ==
    computeLeaderboard(tournaments).ok

----------------------------------------------------------------------------
(* Later rounds of a single-elimination bracket *)

\* the matches of round 2 and later of a single-elimination tournament, as
\* the round data holds them
LaterRoundMatches(t) ==
    IF t.type = "single"
    THEN UNION {SeqRange(t.meta.rounds[r]) : r \in 2..Len(t.meta.rounds)}
    ELSE {}

LaterRoundsEmpty(ts) ==
    \A t \in SeqRange(ts) :
        \A g \in LaterRoundMatches(t) :
            /\ g.players = <<>>
            /\ \A f \in SeqRange(t.matches) : f.id = g.id => f.players = <<>>

\* every match of both views other than match `mid` is the same in ts and us
OnlyMatchTouched(ts, us, mid) ==
    /\ Len(us) = Len(ts)
    /\ \A i \in 1..Len(ts) :
           /\ Len(us[i].matches) = Len(ts[i].matches)
           /\ \A k \in 1..Len(ts[i].matches) :
                  ts[i].matches[k].id # mid => us[i].matches[k] = ts[i].matches[k]
           /\ Len(StructuralMatches(us[i])) = Len(StructuralMatches(ts[i]))
           /\ \A k \in 1..Len(StructuralMatches(ts[i])) :
                  StructuralMatches(ts[i])[k].id # mid =>
                      StructuralMatches(us[i])[k] = StructuralMatches(ts[i])[k]

----------------------------------------------------------------------------
(* Updaters queued from one rendered snapshot *)

\* setTournaments((ts) => ts.map(...)) of updateMatch: the updater closes
\* over the ids and the update
updateMatchUpdater(tournamentId, matchId, update) ==
    [kind |-> "updateMatch", tid |-> tournamentId, mid |-> matchId, update |-> update]

\* setTournaments((ts) => ...) of quickScheduleAll: the updater closes over
\* the match list computed from the rendered tournament t
quickScheduleAllUpdater(t, now) ==
    [kind |-> "quickScheduleAll", t |-> t, now |-> now]

applyUpdater(ts, u) ==
    IF u.kind = "updateMatch"
    THEN updateMatch(ts, u.tid, u.mid, u.update)
    ELSE quickScheduleAll(ts, u.t, u.now)

\* React runs the queued updaters in the order they were queued
RECURSIVE applyUpdaters(_, _)
applyUpdaters(ts, queue) ==
    IF queue = <<>> THEN ts
    ELSE applyUpdaters(applyUpdater(ts, Head(queue)), Tail(queue))

BatchLogin == pending = <<>> /\ Login

BatchCreateTournament == pending = <<>> /\ CreateTournament

\* onBlur of a score box: setScore reads the rendered match and queues the
\* updater of updateMatch
QueueSetScore ==
    /\ Shown
    /\ clock < MaxOps
    /\ Len(pending) < MaxPending
    /\ \E m \in BracketMatches(T), box \in {"A", "B"}, v \in 0..MaxScore :
         LET aScore == IF box = "A" THEN v ELSE m.score[1]
             bScore == IF box = "A" THEN m.score[2] ELSE v
             update == [score |-> <<aScore, bScore>>,
                        winner |-> setScoreWinner(m, aScore, bScore)]
         IN  /\ ~setScoreThrows(m, aScore, bScore)
             /\ pending' = Append(pending, updateMatchUpdater(T.id, m.id, update))
             /\ lastOp' = Op("setScore", T.id, m.id, null, update)
    /\ clock' = clock + 1
    /\ UNCHANGED <<tournaments, currentUser, selectedTournamentId, nextId, genVars,
                   marketVars>>

\* the Auto-schedule button: quickScheduleAll reads the rendered tournament
\* and queues its updater
QueueAutoSchedule ==
    /\ Shown
    /\ clock < MaxOps
    /\ Len(pending) < MaxPending
    /\ isAdmin(currentUser, T)
    /\ pending' = Append(pending, quickScheduleAllUpdater(T, clock))
    /\ lastOp' = Op("quickScheduleAll", T.id, null, null, <<>>)
    /\ clock' = clock + 1
    /\ UNCHANGED <<tournaments, currentUser, selectedTournamentId, nextId, genVars,
                   marketVars>>

\* React processes the queue and renders the result
Render ==
    /\ pending # <<>>
    /\ tournaments' = applyUpdaters(tournaments, pending)
    /\ pending' = <<>>
    /\ UNCHANGED <<currentUser, selectedTournamentId, nextId, clock, lastOp, genVars,
                   marketVars>>

NextBatch ==
    \/ BatchLogin
    \/ BatchCreateTournament
    \/ QueueSetScore
    \/ QueueAutoSchedule
    \/ Render

SpecBatch == Init /\ [][NextBatch]_vars

\* updater i of the queue is the last one that writes the score of its match
LastScoreOf(queue, i) ==
    /\ queue[i].kind = "updateMatch"
    /\ "score" \in DOMAIN queue[i].update
    /\ \A k \in (i + 1)..Len(queue) :
           ~(queue[k].kind = "updateMatch" /\ queue[k].mid = queue[i].mid)

\* updater j of the queue is the last auto-schedule of its tournament
LastScheduleOf(queue, j) ==
    /\ queue[j].kind = "quickScheduleAll"
    /\ \A k \in (j + 1)..Len(queue) :
           ~(queue[k].kind = "quickScheduleAll" /\ queue[k].t.id = queue[j].t.id)

\* C13: when an updateMatch and a quickScheduleAll on the same tournament
\* were queued from the same rendered snapshot, in either order, the stored
\* tournament after the render holds the score and winner written by
\* updateMatch in the match's flat entry and the scheduledAt values written by
\* the auto-schedule in every flat entry.
C13_BatchKeepsBothEffects ==
    [][ (pending # <<>> /\ pending' = <<>>) =>
            \A i, j \in 1..Len(pending) :
                ( /\ LastScoreOf(pending, i)
                  /\ LastScheduleOf(pending, j)
                  /\ pending[i].tid = pending[j].t.id ) =>
                    LET t == TournamentById(tournaments', pending[i].tid)
                    IN  \A k \in 1..Len(t.matches) :
                            /\ t.matches[k].scheduledAt = pending[j].now + k
                            /\ t.matches[k].id = pending[i].mid =>
                                   /\ t.matches[k].score = pending[i].update.score
                                   /\ t.matches[k].winner = pending[i].update.winner
      ]_vars

----------------------------------------------------------------------------
(* Marketplace page: events *)

ClickEvent(target, n) == [target |-> target, n |-> n]

\* a click on Get button b: its listener runs, and the event bubbles to the
\* listener of the enclosing card unless propagation was stopped
ClickGetButton ==
    /\ Len(clicks) < MaxClicks
    /\ \E b \in Buttons :
         /\ buttons' = [buttons EXCEPT ![b] = getButtonClick(@)]
         /\ cardLog' = IF getButtonStopsPropagation THEN cardLog
                       ELSE [cardLog EXCEPT ![b] = appCardClick(@)]
         /\ clicks' = Append(clicks, ClickEvent("get-button", b))
    /\ UNCHANGED <<appVars, genVars>>

\* a click on card c outside its Get button
ClickAppCard ==
    /\ Len(clicks) < MaxClicks
    /\ \E c \in Buttons :
         /\ cardLog' = [cardLog EXCEPT ![c] = appCardClick(@)]
         /\ clicks' = Append(clicks, ClickEvent("app-card", c))
    /\ UNCHANGED <<buttons, appVars, genVars>>

\* the 2000 ms timeout of button b runs
InstallTimeout ==
    /\ \E b \in Buttons :
         /\ buttons[b].timers > 0
         /\ buttons' = [buttons EXCEPT ![b] = installTimeout(@)]
    /\ UNCHANGED <<cardLog, clicks, appVars, genVars>>

NextMarket ==
    \/ ClickGetButton
    \/ ClickAppCard
    \/ InstallTimeout

SpecMarket == Init /\ [][NextMarket]_vars

\* the position of a button text in the order Get, Installing..., Installed
TextRank(text) ==
    CASE text = "Get" -> 0
      [] text = "Installing..." -> 1
      [] text = "Installed" -> 2

ClicksOn(b) == {k \in 1..Len(clicks) : clicks[k] = ClickEvent("get-button", b)}

\* C15: in every step each Get button keeps its text or moves one place
\* forward in the order Get, Installing..., Installed; the first click on a
\* button marks it disabled, shows Installing... and schedules its one and
\* only timer; every later click on it leaves the button as it is; the step
\* in which its timer runs ends with the text Installed; and a click on a
\* button never runs the click listener of a card.
C15_GetButtonLifecycle ==
    [][ \A b \in Buttons :
          LET old == buttons[b]
              new == buttons'[b]
              clicked == clicks' = Append(clicks, ClickEvent("get-button", b))
          IN  /\ TextRank(new.text) \in {TextRank(old.text), TextRank(old.text) + 1}
              /\ old.disabled => new.disabled
              /\ new.scheduled <= 1
              /\ (clicked /\ ClicksOn(b) = {}) =>
                     /\ old = idleButton
                     /\ new.disabled
                     /\ new.text = "Installing..."
                     /\ new.scheduled = 1
                     /\ new.timers = 1
              /\ (clicked /\ ClicksOn(b) # {}) => new = old
              /\ clicked => cardLog' = cardLog
              /\ new.timers < old.timers => (new.text = "Installed" /\ new.timers = 0)
      ]_vars

\* a button that was clicked more than once shows Installed after its only
\* timer ran, and the listener of its card never ran
C15_Witness ==
    \E b \in Buttons :
        /\ Cardinality(ClicksOn(b)) >= 2
        /\ buttons[b].text = "Installed"
        /\ buttons[b].disabled
        /\ buttons[b].scheduled = 1
        /\ buttons[b].timers = 0
        /\ cardLog[b] = 0

====
